---------------------------- MODULE Spec2Model ----------------------------
(***************************************************************************)
(* CRUD slices for posts and products: server actions (create / update /   *)
(* delete), the [id] pages and the list pages, over two tables.            *)
(*                                                                         *)
(* JavaScript strings are sequences of one-character strings, so that      *)
(* parseInt / parseFloat and the length rules are computed, not assumed.   *)
(* JavaScript numbers are decimal fractions m / 10^e (or NaN).             *)
(***************************************************************************)
EXTENDS Integers, Sequences, FiniteSets, TLC

(***************************************************************************)
(* Bounds of the model.                                                    *)
(***************************************************************************)
NumReq == 2            \* server-action invocations in flight at once
MaxInvocations == 2    \* server-action invocations in one behaviour
MaxRows == 2           \* rows per table created before the behaviour starts

(***************************************************************************)
(* JavaScript values.                                                      *)
(***************************************************************************)
JNull == [t |-> "null", s |-> <<>>, nan |-> FALSE, m |-> 0, e |-> 0]
JStr(chars) == [t |-> "string", s |-> chars, nan |-> FALSE, m |-> 0, e |-> 0]
NaN == [t |-> "number", s |-> <<>>, nan |-> TRUE, m |-> 0, e |-> 0]

RECURSIVE Normalise(_, _)
\* m / 10^e with trailing zeros of the fraction removed
Normalise(m, e) ==
    IF e > 0 /\ m % 10 = 0 THEN Normalise(m \div 10, e - 1)
    ELSE [t |-> "number", s |-> <<>>, nan |-> FALSE, m |-> m, e |-> e]

JNum(m, e) == Normalise(m, e)
JInt(n) == JNum(n, 0)

Digits == {"0", "1", "2", "3", "4", "5", "6", "7", "8", "9"}

DigitVal(c) ==
    CASE c = "0" -> 0 [] c = "1" -> 1 [] c = "2" -> 2 [] c = "3" -> 3
      [] c = "4" -> 4 [] c = "5" -> 5 [] c = "6" -> 6 [] c = "7" -> 7
      [] c = "8" -> 8 [] c = "9" -> 9

RECURSIVE TrimStart(_)
TrimStart(s) == IF s # <<>> /\ Head(s) = " " THEN TrimStart(Tail(s)) ELSE s

RECURSIVE DigitPrefix(_)
\* the longest prefix of s made of decimal digits
DigitPrefix(s) ==
    IF s # <<>> /\ Head(s) \in Digits THEN <<Head(s)>> \o DigitPrefix(Tail(s))
    ELSE <<>>

RECURSIVE DigitsValue(_, _)
DigitsValue(ds, acc) ==
    IF ds = <<>> THEN acc ELSE DigitsValue(Tail(ds), acc * 10 + DigitVal(Head(ds)))

Drop(s, n) == SubSeq(s, n + 1, Len(s))

\* String(v) for the values a form field or URL parameter can hold
ToChars(v) == IF v.t = "null" THEN <<"n", "u", "l", "l">> ELSE v.s

\* Sign and unsigned rest of a trimmed numeric literal
SignOf(s) == IF s # <<>> /\ Head(s) = "-" THEN -1 ELSE 1
Unsigned(s) == IF s # <<>> /\ Head(s) \in {"-", "+"} THEN Tail(s) ELSE s

\* parseInt(v), radix 10: leading white space, a sign, then the digits up
\* to the first character that is no digit; NaN when there is no digit.
parseInt(v) ==
    LET t == TrimStart(ToChars(v))
        ds == DigitPrefix(Unsigned(t))
    IN  IF ds = <<>> THEN NaN ELSE JInt(SignOf(t) * DigitsValue(ds, 0))

\* parseFloat(v): as parseInt, with an optional fraction ".ddd"
parseFloat(v) ==
    LET t == TrimStart(ToChars(v))
        u == Unsigned(t)
        ip == DigitPrefix(u)
        rest == Drop(u, Len(ip))
        fp == IF rest # <<>> /\ Head(rest) = "." THEN DigitPrefix(Tail(rest)) ELSE <<>>
    IN  IF ip = <<>> /\ fp = <<>> THEN NaN
        ELSE JNum(SignOf(t) * DigitsValue(ip \o fp, 0), Len(fp))

isNaN(v) == v.t = "number" /\ v.nan


(***************************************************************************)
(* Strings of the program.                                                 *)
(***************************************************************************)
Tech == <<"T", "e", "c", "h">>
Life == <<"L", "i", "f", "e">>
General == <<"G", "e", "n", "e", "r", "a", "l">>
PostCategory == {Tech, Life, General}

Electronics == <<"E", "l", "e", "c", "t", "r", "o", "n", "i", "c", "s">>
Clothing == <<"C", "l", "o", "t", "h", "i", "n", "g">>
Books == <<"B", "o", "o", "k", "s">>
Home == <<"H", "o", "m", "e">>
Sports == <<"S", "p", "o", "r", "t", "s">>
ProductCategory == {Electronics, Clothing, Books, Home, Sports}

(***************************************************************************)
(* zod.  A field's rule is a chain of checks [k, n, vals]; the first is    *)
(* the type check, and when it fails the rest of the chain is not run.     *)
(* An issue is <<field, message>>.                                         *)
(***************************************************************************)
Chk(k, n, msg) == [k |-> k, n |-> n, vals |-> {}, msg |-> msg]
zNumber == Chk("number", 0, "invalid_type")
zString == Chk("string", 0, "invalid_type")
zInt(msg) == Chk("int", 0, msg)
zPositive(msg) == Chk("positive", 0, msg)
zMin(n, msg) == Chk("min", n, msg)
zMinLen(n, msg) == Chk("minLen", n, msg)
zMaxLen(n, msg) == Chk("maxLen", n, msg)
zNativeEnum(vals, msg) == [k |-> "nativeEnum", n |-> 0, vals |-> vals, msg |-> msg]

RECURSIVE Pow10(_)
Pow10(e) == IF e = 0 THEN 1 ELSE 10 * Pow10(e - 1)

\* Whether value v passes check c
Passes(c, v) ==
    CASE c.k = "number" -> v.t = "number" /\ ~v.nan
      [] c.k = "string" -> v.t = "string"
      [] c.k = "nativeEnum" -> v.t = "string" /\ v.s \in c.vals
      [] c.k = "int" -> v.e = 0
      [] c.k = "positive" -> v.m > 0
      [] c.k = "min" -> v.m >= c.n * Pow10(v.e)
      [] c.k = "minLen" -> Len(v.s) >= c.n
      [] c.k = "maxLen" -> Len(v.s) <= c.n

\* The messages of the checks of `rule` that value v fails
FieldIssues(rule, v) ==
    IF ~Passes(rule[1], v) THEN {rule[1].msg}
    ELSE {rule[i].msg : i \in {j \in 2..Len(rule) : ~Passes(rule[j], v)}}

\* schema.parse(raw): the validated data, or the issues of the ZodError
SchemaParse(schema, raw) ==
    LET issues == UNION {{<<f, m>> : m \in FieldIssues(schema[f], raw[f])} :
                         f \in DOMAIN schema}
    IN  [success |-> issues = {}, data |-> raw, issues |-> issues]

\* createPostSchema whose authorId lacks .positive()
createPostSchemaAnySign ==
    [title |-> <<zString, zMinLen(1, "required"), zMaxLen(100, "too_long")>>,
     body |-> <<zString, zMinLen(1, "required"), zMaxLen(5000, "too_long")>>,
     category |-> <<zNativeEnum(PostCategory, "invalid_category")>>,
     authorId |-> <<zNumber, zInt("int")>>]

createPostSchema ==
    [title |-> <<zString, zMinLen(1, "required"), zMaxLen(100, "too_long")>>,
     body |-> <<zString, zMinLen(1, "required"), zMaxLen(5000, "too_long")>>,
     category |-> <<zNativeEnum(PostCategory, "invalid_category")>>,
     authorId |-> <<zNumber, zInt("int"), zPositive("positive")>>]

updatePostSchema ==
    [id |-> <<zNumber, zInt("int"), zPositive("positive")>>,
     title |-> <<zString, zMinLen(1, "required"), zMaxLen(100, "too_long")>>,
     body |-> <<zString, zMinLen(1, "required"), zMaxLen(5000, "too_long")>>,
     category |-> <<zNativeEnum(PostCategory, "invalid_category")>>,
     authorId |-> <<zNumber, zInt("int"), zPositive("positive")>>]

\* deletePostSchema whose id lacks .int()
deletePostSchemaAnyNumber ==
    [id |-> <<zNumber, zPositive("positive")>>]

deletePostSchema ==
    [id |-> <<zNumber, zInt("int"), zPositive("positive")>>]

\* createProductSchema with updateProductSchema's price rule
createProductSchemaMinPrice ==
    [name |-> <<zString, zMinLen(1, "required"), zMaxLen(100, "too_long")>>,
     category |-> <<zNativeEnum(ProductCategory, "invalid_category")>>,
     price |-> <<zNumber, zMin(0, "min")>>,
     stock |-> <<zNumber, zInt("int"), zMin(0, "min")>>]

createProductSchema ==
    [name |-> <<zString, zMinLen(1, "required"), zMaxLen(100, "too_long")>>,
     category |-> <<zNativeEnum(ProductCategory, "invalid_category")>>,
     price |-> <<zNumber, zPositive("positive")>>,
     stock |-> <<zNumber, zInt("int"), zMin(0, "min")>>]

\* updateProductSchema with createProductSchema's price rule
updateProductSchemaPositivePrice ==
    [id |-> <<zNumber, zInt("int"), zPositive("positive")>>,
     name |-> <<zString, zMinLen(1, "required"), zMaxLen(100, "too_long")>>,
     category |-> <<zNativeEnum(ProductCategory, "invalid_category")>>,
     price |-> <<zNumber, zPositive("positive")>>,
     stock |-> <<zNumber, zInt("int"), zMin(0, "min")>>]

updateProductSchema ==
    [id |-> <<zNumber, zInt("int"), zPositive("positive")>>,
     name |-> <<zString, zMinLen(1, "required"), zMaxLen(100, "too_long")>>,
     category |-> <<zNativeEnum(ProductCategory, "invalid_category")>>,
     price |-> <<zNumber, zMin(0, "min")>>,
     stock |-> <<zNumber, zInt("int"), zMin(0, "min")>>]

deleteProductSchema ==
    [id |-> <<zNumber, zInt("int"), zPositive("positive")>>]


(***************************************************************************)
(* The database: tables "posts" and "products" (sets of rows, id the       *)
(* primary key) and their autoincrement sequences.  A repository function  *)
(* runs one SQL statement: it yields the set of its possible outcomes      *)
(* [db, ret, sql], ret being what the function returns (<<>> is            *)
(* null / undefined / void) and sql the statement it ran.                  *)
(***************************************************************************)
null == <<>>

Sql(verb, table) == [verb |-> verb, table |-> table]

Outcome(db, ret, sql) == [db |-> db, ret |-> ret, sql |-> sql]

\* rows[0] || null, over a set of rows with distinct ids
First(rows) == IF rows = {} THEN null ELSE <<CHOOSE r \in rows : TRUE>>

RECURSIVE Orderings(_)
\* every sequence that lists the elements of the set once
Orderings(S) ==
    IF S = {} THEN {<<>>}
    ELSE UNION {{<<x>> \o o : o \in Orderings(S \ {x})} : x \in S}

\* ORDER BY created_at ASC
OrderByCreatedAtAsc(S) ==
    {o \in Orderings(S) :
        \A i \in 1..(Len(o) - 1) : o[i].createdAt <= o[i + 1].createdAt}

\* ORDER BY created_at DESC: rows with equal created_at come in any order
OrderByCreatedAtDesc(S) ==
    {o \in Orderings(S) :
        \A i \in 1..(Len(o) - 1) : o[i].createdAt >= o[i + 1].createdAt}

\* createPost with the title and body parameters swapped
createPostSwapped(db, now, data) ==
    LET row == [id |-> db.postsSeq, title |-> data.body.s, body |-> data.title.s,
                category |-> data.category.s, authorId |-> data.authorId.m,
                createdAt |-> now]
    IN  {Outcome([db EXCEPT !.posts = @ \cup {row}, !.postsSeq = @ + 1],
                 <<row>>, Sql("INSERT", "posts"))}

createPost(db, now, data) ==
    LET row == [id |-> db.postsSeq, title |-> data.title.s, body |-> data.body.s,
                category |-> data.category.s, authorId |-> data.authorId.m,
                createdAt |-> now]
    IN  {Outcome([db EXCEPT !.posts = @ \cup {row}, !.postsSeq = @ + 1],
                 <<row>>, Sql("INSERT", "posts"))}

getPostList(db) ==
    {Outcome(db, o, Sql("SELECT", "posts")) :
        o \in OrderByCreatedAtDesc(
                {[id |-> r.id, title |-> r.title, createdAt |-> r.createdAt] :
                    r \in db.posts})}

\* getPostById carrying deletePost's statement
getPostByIdDeleting(db, id) ==
    {Outcome([db EXCEPT !.posts = {r \in @ : r.id # id}],
             First({r \in db.posts : r.id = id}), Sql("DELETE", "posts"))}

getPostById(db, id) ==
    {Outcome(db, First({r \in db.posts : r.id = id}), Sql("SELECT", "posts"))}

\* updatePost that also sets created_at = NOW()
updatePostTouching(db, now, data) ==
    LET hit == {r \in db.posts : r.id = data.id.m}
        new == {[r EXCEPT !.title = data.title.s, !.body = data.body.s,
                          !.category = data.category.s,
                          !.authorId = data.authorId.m,
                          !.createdAt = now] : r \in hit}
    IN  {Outcome([db EXCEPT !.posts = (@ \ hit) \cup new], First(new),
                 Sql("UPDATE", "posts"))}

\* updatePost written as an upsert: a row is inserted when none matches
updatePostUpserting(db, now, data) ==
    LET hit == {r \in db.posts : r.id = data.id.m}
        row == [id |-> data.id.m, title |-> data.title.s, body |-> data.body.s,
                category |-> data.category.s, authorId |-> data.authorId.m,
                createdAt |-> now]
        new == IF hit = {} THEN {row}
               ELSE {[r EXCEPT !.title = data.title.s, !.body = data.body.s,
                               !.category = data.category.s,
                               !.authorId = data.authorId.m] : r \in hit}
    IN  {Outcome([db EXCEPT !.posts = (@ \ hit) \cup new], First(new),
                 Sql("UPDATE", "posts"))}

updatePost(db, now, data) ==
    LET hit == {r \in db.posts : r.id = data.id.m}
        new == {[r EXCEPT !.title = data.title.s, !.body = data.body.s,
                          !.category = data.category.s,
                          !.authorId = data.authorId.m] : r \in hit}
    IN  {Outcome([db EXCEPT !.posts = (@ \ hit) \cup new], First(new),
                 Sql("UPDATE", "posts"))}

\* deletePost whose WHERE matches no row
deletePostNoMatch(db, now, data) ==
    {Outcome(db, null, Sql("DELETE", "posts"))}

deletePost(db, now, data) ==
    {Outcome([db EXCEPT !.posts = {r \in @ : r.id # data.id.m}], null,
             Sql("DELETE", "posts"))}

createProduct(db, now, data) ==
    LET row == [id |-> db.productsSeq, name |-> data.name.s,
                category |-> data.category.s,
                price |-> <<data.price.m, data.price.e>>,
                stock |-> data.stock.m, createdAt |-> now]
    IN  {Outcome([db EXCEPT !.products = @ \cup {row}, !.productsSeq = @ + 1],
                 <<row>>, Sql("INSERT", "products"))}

getProductList(db) ==
    {Outcome(db, o, Sql("SELECT", "products")) :
        o \in OrderByCreatedAtDesc(
                {[id |-> r.id, name |-> r.name, createdAt |-> r.createdAt] :
                    r \in db.products})}

getProductById(db, id) ==
    {Outcome(db, First({r \in db.products : r.id = id}), Sql("SELECT", "products"))}

\* updateProduct without its WHERE clause
updateProductEveryRow(db, now, data) ==
    LET hit == db.products
        new == {[r EXCEPT !.name = data.name.s, !.category = data.category.s,
                          !.price = <<data.price.m, data.price.e>>,
                          !.stock = data.stock.m] : r \in hit}
    IN  {Outcome([db EXCEPT !.products = (@ \ hit) \cup new], First(new),
                 Sql("UPDATE", "products"))}

updateProduct(db, now, data) ==
    LET hit == {r \in db.products : r.id = data.id.m}
        new == {[r EXCEPT !.name = data.name.s, !.category = data.category.s,
                          !.price = <<data.price.m, data.price.e>>,
                          !.stock = data.stock.m] : r \in hit}
    IN  {Outcome([db EXCEPT !.products = (@ \ hit) \cup new], First(new),
                 Sql("UPDATE", "products"))}

\* deleteProduct with the comparison of its WHERE clause inverted
deleteProductOthers(db, now, data) ==
    LET hit == {r \in db.products : r.id # data.id.m}
    IN  {Outcome([db EXCEPT !.products = @ \ hit], First(hit),
                 Sql("DELETE", "products"))}

deleteProduct(db, now, data) ==
    LET hit == {r \in db.products : r.id = data.id.m}
    IN  {Outcome([db EXCEPT !.products = @ \ hit], First(hit),
                 Sql("DELETE", "products"))}

(***************************************************************************)
(* The server actions.  Each is its source, statement by statement: the    *)
(* conversion of the form fields into rawData, then the program            *)
(*   schema.parse(rawData); await repository(validatedData);               *)
(*   revalidateTag(tag); redirect(path).                                   *)
(***************************************************************************)
Stmt(op, arg) == [op |-> op, arg |-> arg]

PostsList == "/t2-read-list/posts"
ProductsList == "/t2-read-list/products"

\* createPostAction saving twice
createPostActionTwice ==
    [name |-> "createPostAction",
     conv |-> [title |-> "string", body |-> "string", category |-> "string",
               authorId |-> "parseInt"],
     program |-> <<Stmt("parse", "createPostSchema"), Stmt("await", "createPost"),
                   Stmt("await", "createPost"),
                   Stmt("revalidateTag", "posts"), Stmt("redirect", PostsList)>>]

createPostAction ==
    [name |-> "createPostAction",
     conv |-> [title |-> "string", body |-> "string", category |-> "string",
               authorId |-> "parseInt"],
     program |-> <<Stmt("parse", "createPostSchema"), Stmt("await", "createPost"),
                   Stmt("revalidateTag", "posts"), Stmt("redirect", PostsList)>>]

\* updatePostAction invalidating the other entity's tag
updatePostActionWrongTag ==
    [name |-> "updatePostAction",
     conv |-> [id |-> "parseInt", title |-> "string", body |-> "string",
               category |-> "string", authorId |-> "parseInt"],
     program |-> <<Stmt("parse", "updatePostSchema"), Stmt("await", "updatePost"),
                   Stmt("revalidateTag", "products"), Stmt("redirect", PostsList)>>]

updatePostAction ==
    [name |-> "updatePostAction",
     conv |-> [id |-> "parseInt", title |-> "string", body |-> "string",
               category |-> "string", authorId |-> "parseInt"],
     program |-> <<Stmt("parse", "updatePostSchema"), Stmt("await", "updatePost"),
                   Stmt("revalidateTag", "posts"), Stmt("redirect", PostsList)>>]

\* deletePostAction without its schema.parse
deletePostActionUnvalidated ==
    [name |-> "deletePostAction",
     conv |-> [id |-> "parseInt"],
     program |-> <<Stmt("await", "deletePost"),
                   Stmt("revalidateTag", "posts"), Stmt("redirect", PostsList)>>]

deletePostAction ==
    [name |-> "deletePostAction",
     conv |-> [id |-> "parseInt"],
     program |-> <<Stmt("parse", "deletePostSchema"), Stmt("await", "deletePost"),
                   Stmt("revalidateTag", "posts"), Stmt("redirect", PostsList)>>]

createProductAction ==
    [name |-> "createProductAction",
     conv |-> [name |-> "string", category |-> "string", price |-> "parseFloat",
               stock |-> "parseInt"],
     program |-> <<Stmt("parse", "createProductSchema"), Stmt("await", "createProduct"),
                   Stmt("revalidateTag", "products"), Stmt("redirect", ProductsList)>>]

\* updateProductAction invalidating the tag before the update has run
updateProductActionEarlyRevalidate ==
    [name |-> "updateProductAction",
     conv |-> [id |-> "parseInt", name |-> "string", category |-> "string",
               price |-> "parseFloat", stock |-> "parseInt"],
     program |-> <<Stmt("parse", "updateProductSchema"), Stmt("revalidateTag", "products"),
                   Stmt("await", "updateProduct"), Stmt("redirect", ProductsList)>>]

updateProductAction ==
    [name |-> "updateProductAction",
     conv |-> [id |-> "parseInt", name |-> "string", category |-> "string",
               price |-> "parseFloat", stock |-> "parseInt"],
     program |-> <<Stmt("parse", "updateProductSchema"), Stmt("await", "updateProduct"),
                   Stmt("revalidateTag", "products"), Stmt("redirect", ProductsList)>>]

\* deleteProductAction without its revalidateTag
deleteProductActionNoRevalidate ==
    [name |-> "deleteProductAction",
     conv |-> [id |-> "parseInt"],
     program |-> <<Stmt("parse", "deleteProductSchema"), Stmt("await", "deleteProduct"),
                   Stmt("redirect", ProductsList)>>]

deleteProductAction ==
    [name |-> "deleteProductAction",
     conv |-> [id |-> "parseInt"],
     program |-> <<Stmt("parse", "deleteProductSchema"), Stmt("await", "deleteProduct"),
                   Stmt("revalidateTag", "products"), Stmt("redirect", ProductsList)>>]

PostActions == {"createPostAction", "updatePostAction", "deletePostAction"}
ProductActions == {"createProductAction", "updateProductAction", "deleteProductAction"}
ActionNames == PostActions \cup ProductActions

\* The handler a form's action attribute names
Handler(a) ==
    CASE a = "createPostAction" -> createPostAction
      [] a = "updatePostAction" -> updatePostAction
      [] a = "deletePostAction" -> deletePostAction
      [] a = "createProductAction" -> createProductAction
      [] a = "updateProductAction" -> updateProductAction
      [] a = "deleteProductAction" -> deleteProductAction

\* The schema an import of "../_schema/..." binds
Schema(n) ==
    CASE n = "createPostSchema" -> createPostSchema
      [] n = "updatePostSchema" -> updatePostSchema
      [] n = "deletePostSchema" -> deletePostSchema
      [] n = "createProductSchema" -> createProductSchema
      [] n = "updateProductSchema" -> updateProductSchema
      [] n = "deleteProductSchema" -> deleteProductSchema

\* The repository function an import of "../_repository/..." binds
Repository(n, db, now, data) ==
    CASE n = "createPost" -> createPost(db, now, data)
      [] n = "updatePost" -> updatePost(db, now, data)
      [] n = "deletePost" -> deletePost(db, now, data)
      [] n = "createProduct" -> createProduct(db, now, data)
      [] n = "updateProduct" -> updateProduct(db, now, data)
      [] n = "deleteProduct" -> deleteProduct(db, now, data)

\* formData.get(field) converted as the handler's rawData literal says
Convert(how, v) ==
    CASE how = "string" -> v
      [] how = "parseInt" -> parseInt(v)
      [] how = "parseFloat" -> parseFloat(v)

RawData(h, form) == [f \in DOMAIN h.conv |-> Convert(h.conv[f], form[f])]


(***************************************************************************)
(* State.                                                                  *)
(***************************************************************************)
VARIABLES
    posts,        \* rows of table "posts"
    products,     \* rows of table "products"
    postsSeq,     \* next id of posts
    productsSeq,  \* next id of products
    clock,        \* NOW()
    cache,        \* per tag: the cached list, as the framework holds it
    req,          \* server-action invocations in flight
    invocations,  \* server-action invocations so far
    resp          \* the page response of the last step, if it rendered a page

vars == <<posts, products, postsSeq, productsSeq, clock, cache, req, invocations, resp>>

Req == 1..NumReq
Tags == {"posts", "products"}

DB == [posts |-> posts, products |-> products,
       postsSeq |-> postsSeq, productsSeq |-> productsSeq]

Idle ==
    [a |-> "", status |-> "idle", pc |-> 0, data |-> <<>>, issues |-> {},
     log |-> <<>>, sqls |-> <<>>, ret |-> null, tags |-> <<>>, to |-> ""]

Stale == [valid |-> FALSE, rows |-> <<>>]

NoResp == [page |-> "", param |-> <<>>, status |-> 0, view |-> "", rows |-> <<>>,
           sqls |-> <<>>]

(***************************************************************************)
(* Form submissions and earlier rows the model draws from.                 *)
(***************************************************************************)
C(c) == JStr(<<c>>)
Rep(c, n) == JStr([i \in 1..n |-> c])

IdFields == {C("1"), C("2")}
BadIdFields == {JNull, C("0")}

PostA == [title |-> C("a"), body |-> C("x"), category |-> JStr(Tech), authorId |-> C("1")]
PostB == [title |-> C("b"), body |-> C("x"), category |-> JStr(Life), authorId |-> C("2")]
PostValues == {PostA, PostB}
BadPostValues ==
    {[title |-> JStr(<<>>), body |-> C("x"), category |-> C("a"), authorId |-> C("0")]}

ProductP == [name |-> C("p"), category |-> JStr(Books),
             price |-> JStr(<<"1", ".", "5">>), stock |-> C("0")]
ProductQ == [name |-> C("q"), category |-> JStr(Home), price |-> C("2"), stock |-> C("3")]
ProductValues == {ProductP, ProductQ}
BadProductValues ==
    {[name |-> JNull, category |-> JStr(Books), price |-> JStr(<<"-", "1">>),
      stock |-> C("a")]}

WithId(i, f) == [k \in DOMAIN f \cup {"id"} |-> IF k = "id" THEN i ELSE f[k]]

Forms(a) ==
    CASE a = "createPostAction" -> PostValues \cup BadPostValues
      [] a = "updatePostAction" ->
            {WithId(i, f) : i \in IdFields, f \in PostValues}
            \cup {WithId(C("1"), f) : f \in BadPostValues}
            \cup {WithId(C("0"), PostA)}
      [] a = "deletePostAction" -> {[id |-> i] : i \in IdFields \cup BadIdFields}
      [] a = "createProductAction" -> ProductValues \cup BadProductValues
      [] a = "updateProductAction" ->
            {WithId(i, f) : i \in IdFields, f \in ProductValues}
            \cup {WithId(C("1"), f) : f \in BadProductValues}
            \cup {WithId(C("0"), ProductP)}
      [] a = "deleteProductAction" -> {[id |-> i] : i \in IdFields \cup BadIdFields}

RECURSIVE Created(_, _, _, _)
\* The database after the first n of createPost(forms[k]) and
\* createProduct(forms[k]), all at time 0
Created(db, n, postForms, productForms) ==
    IF n = 0 THEN db
    ELSE LET before == Created(db, n - 1, postForms, productForms)
             p == CHOOSE o \in createPost(before, 0,
                      RawData(createPostAction, postForms[n])) : TRUE
         IN  (CHOOSE o \in createProduct(p.db, 0,
                      RawData(createProductAction, productForms[n])) : TRUE).db

EmptyDB == [posts |-> {}, products |-> {}, postsSeq |-> 1, productsSeq |-> 1]

Init ==
    /\ \E n \in 0..MaxRows :
         LET db == Created(EmptyDB, n, [k \in 1..MaxRows |-> IF k % 2 = 1 THEN PostA ELSE PostB],
                           [k \in 1..MaxRows |-> IF k % 2 = 1 THEN ProductP ELSE ProductQ])
         IN  /\ posts = db.posts
             /\ products = db.products
             /\ postsSeq = db.postsSeq
             /\ productsSeq = db.productsSeq
    /\ clock = 0
    /\ cache = [t \in Tags |-> Stale]
    /\ req = [r \in Req |-> Idle]
    /\ invocations = 0
    /\ resp = NoResp

(***************************************************************************)
(* A server action runs: the form is submitted, then the statements of the *)
(* handler run one by one.                                                 *)
(***************************************************************************)
Running(r) == req[r].status = "running"
Current(r) == Handler(req[r].a).program[req[r].pc]
At(r, op) ==
    /\ Running(r)
    /\ req[r].pc <= Len(Handler(req[r].a).program)
    /\ Current(r).op = op

\* Requests are interchangeable: a submission takes the first free slot
FreeSlot(r) == req[r].status = "idle" /\ \A q \in 1..(r - 1) : req[q].status # "idle"

Invoke(r, a, form) ==
    /\ FreeSlot(r)
    /\ invocations < MaxInvocations
    /\ invocations' = invocations + 1
    /\ req' = [req EXCEPT ![r] =
                 [Idle EXCEPT !.a = a, !.status = "running", !.pc = 1,
                              !.data = RawData(Handler(a), form)]]
    /\ resp' = NoResp
    /\ UNCHANGED <<posts, products, postsSeq, productsSeq, clock, cache>>

\* const validatedData = schema.parse(rawData): throws ZodError on failure
Parse(r) ==
    /\ At(r, "parse")
    /\ LET res == SchemaParse(Schema(Current(r).arg), req[r].data)
       IN  req' = [req EXCEPT ![r] =
                     IF res.success
                     THEN [@ EXCEPT !.pc = @ + 1, !.log = Append(@, "parse")]
                     ELSE [@ EXCEPT !.status = "threw", !.issues = res.issues,
                                    !.log = Append(@, "parse")]]
    /\ resp' = NoResp
    /\ UNCHANGED <<posts, products, postsSeq, productsSeq, clock, cache, invocations>>

\* await repository(validatedData); NOW() is the clock, which may have
\* advanced since the last statement
Await(r) ==
    /\ At(r, "await")
    /\ \E now \in {clock, clock + 1} :
        \E o \in Repository(Current(r).arg, DB, now, req[r].data) :
          /\ clock' = IF o.sql.verb = "INSERT" THEN now ELSE clock
          /\ posts' = o.db.posts
          /\ products' = o.db.products
          /\ postsSeq' = o.db.postsSeq
          /\ productsSeq' = o.db.productsSeq
          /\ req' = [req EXCEPT ![r] =
                       [@ EXCEPT !.pc = @ + 1, !.log = Append(@, "await"),
                                 !.sqls = Append(@, o.sql), !.ret = o.ret]]
    /\ resp' = NoResp
    /\ UNCHANGED <<cache, invocations>>

\* revalidateTag(tag): what the framework cached under the tag is dropped
revalidateTag(c, tag) == [c EXCEPT ![tag] = Stale]

RevalidateTag(r) ==
    /\ At(r, "revalidateTag")
    /\ cache' = revalidateTag(cache, Current(r).arg)
    /\ req' = [req EXCEPT ![r] =
                 [@ EXCEPT !.pc = @ + 1, !.log = Append(@, "revalidateTag"),
                           !.tags = Append(@, Current(r).arg)]]
    /\ resp' = NoResp
    /\ UNCHANGED <<posts, products, postsSeq, productsSeq, clock, invocations>>

\* redirect(path): throws NEXT_REDIRECT, which ends the handler
Redirect(r) ==
    /\ At(r, "redirect")
    /\ req' = [req EXCEPT ![r] =
                 [@ EXCEPT !.status = "redirected", !.log = Append(@, "redirect"),
                           !.to = Current(r).arg]]
    /\ resp' = NoResp
    /\ UNCHANGED <<posts, products, postsSeq, productsSeq, clock, cache, invocations>>

\* The response is sent and the invocation is over
Respond(r) ==
    /\ req[r].status \in {"threw", "redirected"}
    /\ req' = [req EXCEPT ![r] = Idle]
    /\ resp' = NoResp
    /\ UNCHANGED <<posts, products, postsSeq, productsSeq, clock, cache, invocations>>

(***************************************************************************)
(* Pages.  A list page is served from the framework's cache under its      *)
(* tag while that is valid, and is rendered (and cached) otherwise.  An    *)
(* [id] page is rendered on every request.                                 *)
(***************************************************************************)
Page(name, repo, view, tag) == [name |-> name, repo |-> repo, view |-> view, tag |-> tag]

PostsPage == Page("PostsPage", "getPostList", "PostList", "posts")
ProductsPage == Page("ProductsPage", "getProductList", "ProductList", "products")
PostDetailPage == Page("PostDetailPage", "getPostById", "PostDetail", "posts")
ProductDetailPage == Page("ProductDetailPage", "getProductById", "ProductDetail", "products")
PostUpdatePage == Page("PostUpdatePage", "getPostById", "PostUpdateForm", "posts")
ProductUpdatePage == Page("ProductUpdatePage", "getProductById", "ProductUpdateForm", "products")
PostDeletePage == Page("PostDeletePage", "getPostById", "PostDeleteDialog", "posts")
ProductDeletePage == Page("ProductDeletePage", "getProductById", "ProductDeleteDialog", "products")

ListPages == {PostsPage, ProductsPage}
IdPages == {PostDetailPage, ProductDetailPage, PostUpdatePage, ProductUpdatePage,
            PostDeletePage, ProductDeletePage}

\* The repository function a page imports
Query(n, db, id) ==
    CASE n = "getPostList" -> getPostList(db)
      [] n = "getProductList" -> getProductList(db)
      [] n = "getPostById" -> getPostById(db, id)
      [] n = "getProductById" -> getProductById(db, id)

Response(p, param, status, view, rows, sqls) ==
    [page |-> p.name, param |-> param, status |-> status, view |-> view,
     rows |-> rows, sqls |-> sqls]

\* notFound(): throws NEXT_NOT_FOUND, which ends the render with the 404 page
notFound(p, param, sqls) == Response(p, param, 404, "not-found", <<>>, sqls)

\* An [id] page without the !row check
IdPageRenderUnchecked(p, db, param) ==
    LET id == parseInt(JStr(param))
    IN  IF isNaN(id) THEN {[db |-> db, resp |-> notFound(p, param, <<>>)]}
        ELSE {[db |-> o.db,
               resp |-> Response(p, param, 200, p.view, o.ret, <<o.sql>>)] :
                 o \in Query(p.repo, db, id.m)}

\* An [id] page: parseInt(id); isNaN -> notFound(); getById; !row -> notFound();
\* otherwise the page's component with the row.  Yields [db, resp].
IdPageRender(p, db, param) ==
    LET id == parseInt(JStr(param))
    IN  IF isNaN(id) THEN {[db |-> db, resp |-> notFound(p, param, <<>>)]}
        ELSE {[db |-> o.db,
               resp |-> IF o.ret = null THEN notFound(p, param, <<o.sql>>)
                        ELSE Response(p, param, 200, p.view, o.ret, <<o.sql>>)] :
                 o \in Query(p.repo, db, id.m)}

\* A list page: const rows = await getList(); the list component with them
ListPageRender(p, db) ==
    {[db |-> o.db, resp |-> Response(p, <<>>, 200, p.view, o.ret, <<o.sql>>)] :
        o \in Query(p.repo, db, 0)}

URLParams == {<<"1">>, <<"1", "a">>, <<"a">>}

SetDB(db) ==
    /\ posts' = db.posts
    /\ products' = db.products
    /\ postsSeq' = db.postsSeq
    /\ productsSeq' = db.productsSeq

IdPage(p, param) ==
    /\ \E o \in IdPageRender(p, DB, param) :
          /\ SetDB(o.db)
          /\ resp' = o.resp
    /\ UNCHANGED <<clock, cache, req, invocations>>

ListPage(p) ==
    /\ IF cache[p.tag].valid
       THEN /\ resp' = Response(p, <<>>, 200, p.view, cache[p.tag].rows, <<>>)
            /\ UNCHANGED <<posts, products, postsSeq, productsSeq, cache>>
       ELSE \E o \in ListPageRender(p, DB) :
              /\ SetDB(o.db)
              /\ resp' = o.resp
              /\ cache' = [cache EXCEPT ![p.tag] =
                             [valid |-> TRUE, rows |-> o.resp.rows]]
    /\ UNCHANGED <<clock, req, invocations>>

\* Server actions, NumReq of them in flight at once
Next ==
    \/ \E r \in Req, a \in ActionNames : \E form \in Forms(a) : Invoke(r, a, form)
    \/ \E r \in Req : Parse(r)
    \/ \E r \in Req : Await(r)
    \/ \E r \in Req : RevalidateTag(r)
    \/ \E r \in Req : Redirect(r)
    \/ \E r \in Req : Respond(r)

Spec == Init /\ [][Next]_vars

\* One server action at a time, and the list pages
ListNext ==
    \/ \E a \in ActionNames : \E form \in Forms(a) : Invoke(1, a, form)
    \/ Parse(1)
    \/ Await(1)
    \/ RevalidateTag(1)
    \/ Redirect(1)
    \/ Respond(1)
    \/ \E p \in ListPages : ListPage(p)

ListSpec == Init /\ [][ListNext]_vars

\* One server action at a time, and the [id] pages
PageNext ==
    \/ \E a \in ActionNames : \E form \in Forms(a) : Invoke(1, a, form)
    \/ Parse(1)
    \/ Await(1)
    \/ RevalidateTag(1)
    \/ Redirect(1)
    \/ Respond(1)
    \/ \E p \in IdPages, param \in URLParams : IdPage(p, param)

PageSpec == Init /\ [][PageNext]_vars

(***************************************************************************)
(* What the claims speak of.                                               *)
(***************************************************************************)
\* The schema each action is documented to validate with
SchemaOf(a) ==
    CASE a = "createPostAction" -> createPostSchema
      [] a = "updatePostAction" -> updatePostSchema
      [] a = "deletePostAction" -> deletePostSchema
      [] a = "createProductAction" -> createProductSchema
      [] a = "updateProductAction" -> updateProductSchema
      [] a = "deleteProductAction" -> deleteProductSchema

Invoked(r) == req[r].a # ""
Valid(r) == SchemaParse(SchemaOf(req[r].a), req[r].data).success
Threw(r) == req[r].status = "threw"
Redirected(r) == req[r].status = "redirected"
TablesUnchanged == UNCHANGED <<posts, products, postsSeq, productsSeq>>
FullOrder == <<"parse", "await", "revalidateTag", "redirect">>
IsPrefix(s, t) == Len(s) <= Len(t) /\ SubSeq(t, 1, Len(s)) = s

(***************************************************************************)
(* C1: in each of the six server actions, when the schema's parse of the   *)
(* converted form data fails the action ends with the error: it has run no *)
(* repository function, invalidated no tag and issued no redirect, and the *)
(* step that throws leaves both tables and the cache as they were.         *)
(***************************************************************************)
C1_NothingDone ==
    \A r \in Req :
        Invoked(r) /\ ~Valid(r) =>
            /\ req[r].sqls = <<>>
            /\ req[r].tags = <<>>
            /\ req[r].to = ""
            /\ ~Redirected(r)
            /\ req[r].log # <<>> => Threw(r) /\ req[r].issues # {}

C1_ThrowChangesNothing ==
    \A r \in Req :
        ~Threw(r) /\ Threw(r)' => TablesUnchanged /\ UNCHANGED cache

C1_InvalidInputAborts == []C1_NothingDone /\ [][C1_ThrowChangesNothing]_vars

C1_Witness ==
    \E r \in Req :
        /\ req[r].a = "deletePostAction"
        /\ Threw(r)
        /\ <<"id", "positive">> \in req[r].issues
        /\ posts # {}

(***************************************************************************)
(* C2: the statements of every server action run in the order              *)
(* parse, repository call, revalidateTag, redirect: what an invocation has *)
(* run so far is a prefix of that order, the repository call is made only  *)
(* on data the schema accepts, and an invocation that has redirected has   *)
(* run all four.                                                           *)
(***************************************************************************)
C2_FixedOrder ==
    \A r \in Req :
        Invoked(r) =>
            /\ IsPrefix(req[r].log, FullOrder)
            /\ Len(req[r].log) >= 2 => Valid(r)
            /\ Redirected(r) => req[r].log = FullOrder
            /\ Len(req[r].sqls) = (IF Len(req[r].log) >= 2 THEN 1 ELSE 0)
            /\ Len(req[r].tags) = (IF Len(req[r].log) >= 3 THEN 1 ELSE 0)
            /\ (req[r].to # "") = (Len(req[r].log) = 4)

C2_Witness ==
    \E r \in Req :
        /\ req[r].a = "updateProductAction"
        /\ Redirected(r)
        /\ req[r].ret # null

(***************************************************************************)
(* C3: an invocation of a server action issues at most one mutating        *)
(* statement, and exactly one once validation has succeeded and the action *)
(* has completed: one INSERT, UPDATE or DELETE against one table; and a    *)
(* step changes at most one of the two tables.                             *)
(***************************************************************************)
Mutating == {"INSERT", "UPDATE", "DELETE"}

C3_AtMostOne ==
    \A r \in Req :
        /\ Len(req[r].sqls) <= 1
        /\ \A i \in 1..Len(req[r].sqls) :
              req[r].sqls[i].verb \in Mutating /\ req[r].sqls[i].table \in Tags
        /\ Redirected(r) => Len(req[r].sqls) = 1
        /\ Threw(r) => Len(req[r].sqls) = 0

C3_OneTablePerStep ==
    posts' = posts \/ products' = products

C3_OneMutation == []C3_AtMostOne /\ [][C3_OneTablePerStep]_vars

C3_Witness ==
    \E r \in Req :
        /\ req[r].a = "createPostAction"
        /\ Redirected(r)
        /\ req[r].sqls = <<Sql("INSERT", "posts")>>
        /\ \E q \in Req :
              req[q].a = "deleteProductAction" /\ req[q].sqls = <<Sql("DELETE", "products")>>

(***************************************************************************)
(* C4: from the step in which deletePostAction (deleteProductAction) for   *)
(* id i has run its DELETE, getPostList (getProductList) returns no        *)
(* element with id i and getPostById(i) (getProductById(i)) returns null,  *)
(* and that stays so in every later state until a create inserts a row     *)
(* with that id.                                                           *)
(***************************************************************************)
MaxId == MaxRows + MaxInvocations
DBNext == [posts |-> posts', products |-> products',
           postsSeq |-> postsSeq', productsSeq |-> productsSeq']

NotListed(results, i) ==
    \A o \in results : \A k \in 1..Len(o.ret) : o.ret[k].id # i
PostAbsent(db, i) ==
    /\ \A o \in getPostById(db, i) : o.ret = null
    /\ NotListed(getPostList(db), i)
ProductAbsent(db, i) ==
    /\ \A o \in getProductById(db, i) : o.ret = null
    /\ NotListed(getProductList(db), i)

\* This step is request r sending a statement to the database
Issues(r) == Len(req'[r].sqls) > Len(req[r].sqls)
\* This step is request r, running action a, reaching its redirect
Completes(r, a) == req[r].a = a /\ ~Redirected(r) /\ Redirected(r)'
\* This step is an INSERT into the table that returns a row with id i
Inserts(table, i) ==
    \E r \in Req :
        /\ req'[r].sqls = Append(req[r].sqls, Sql("INSERT", table))
        /\ req'[r].ret # null
        /\ req'[r].ret[1].id = i

C4_StaysGone ==
    \A i \in 1..MaxId :
        /\ PostAbsent(DB, i) /\ ~Inserts("posts", i) => PostAbsent(DBNext, i)
        /\ ProductAbsent(DB, i) /\ ~Inserts("products", i) => ProductAbsent(DBNext, i)

C4_GoneAtDelete ==
    \A r \in Req :
        /\ Issues(r) /\ req[r].a = "deletePostAction" =>
              PostAbsent(DBNext, req[r].data.id.m)
        /\ Issues(r) /\ req[r].a = "deleteProductAction" =>
              ProductAbsent(DBNext, req[r].data.id.m)

C4_DeletedStaysGone == [][C4_GoneAtDelete /\ C4_StaysGone]_vars

C4_Witness ==
    \E r \in Req :
        /\ req[r].a = "deletePostAction"
        /\ Redirected(r)
        /\ req[r].data.id.m = 1
        /\ invocations = 1
        /\ postsSeq > 1
        /\ PostAbsent(DB, 1)

(***************************************************************************)
(* C4 as stated: when deletePostAction (deleteProductAction) for id i      *)
(* completes, no row with id i is listed or found, and that stays so       *)
(* until a later create inserts a row with that id.                        *)
(***************************************************************************)
C4_GoneAtCompletion ==
    \A r \in Req :
        /\ Completes(r, "deletePostAction") => PostAbsent(DBNext, req[r].data.id.m)
        /\ Completes(r, "deleteProductAction") => ProductAbsent(DBNext, req[r].data.id.m)

C4_GoneOnceCompleted == [][C4_GoneAtCompletion /\ C4_StaysGone]_vars

(***************************************************************************)
(* C5: the INSERT of a createPostAction (createProductAction) adds exactly  *)
(* one row to posts (products); the row's title, body, category and        *)
(* authorId (name, category, price, stock) are the validated input, and    *)
(* the row is in every result getPostList (getProductList) then gives.     *)
(***************************************************************************)

Listed(results, id) ==
    \A o \in results : \E k \in 1..Len(o.ret) : o.ret[k].id = id

C5_Step ==
    \A r \in Req :
        /\ Issues(r) /\ req[r].a = "createPostAction" =>
              /\ Cardinality(posts') = Cardinality(posts) + 1
              /\ products' = products
              /\ \E row \in posts' \ posts :
                    /\ row.title = req[r].data.title.s
                    /\ row.body = req[r].data.body.s
                    /\ row.category = req[r].data.category.s
                    /\ row.authorId = req[r].data.authorId.m
                    /\ req'[r].ret = <<row>>
                    /\ Listed(getPostList(DBNext), row.id)
                    /\ \A o \in getPostList(DBNext) : \A k \in 1..Len(o.ret) :
                          o.ret[k].id = row.id => o.ret[k].title = row.title
        /\ Issues(r) /\ req[r].a = "createProductAction" =>
              /\ Cardinality(products') = Cardinality(products) + 1
              /\ posts' = posts
              /\ \E row \in products' \ products :
                    /\ row.name = req[r].data.name.s
                    /\ row.category = req[r].data.category.s
                    /\ row.price = <<req[r].data.price.m, req[r].data.price.e>>
                    /\ row.stock = req[r].data.stock.m
                    /\ req'[r].ret = <<row>>
                    /\ Listed(getProductList(DBNext), row.id)
                    /\ \A o \in getProductList(DBNext) : \A k \in 1..Len(o.ret) :
                          o.ret[k].id = row.id => o.ret[k].name = row.name

C5_CreateAddsOneRow == [][C5_Step]_vars

C5_Witness ==
    \E r \in Req :
        /\ req[r].a = "createPostAction"
        /\ Redirected(r)
        /\ req[r].ret # null
        /\ req[r].ret[1] \in posts
        /\ req[r].ret[1].title = <<"b">>
        /\ req[r].ret[1].id = MaxRows + 1

(***************************************************************************)
(* C6: an action that has reached its redirect has invalidated its         *)
(* entity's tag after its mutation ran, and a list page of that entity     *)
(* rendered while the action stands redirected shows what the list query   *)
(* gives on the tables as they then are.                                   *)
(***************************************************************************)
TagOf(a) == IF a \in PostActions THEN "posts" ELSE "products"

C6_Invalidated ==
    \A r \in Req :
        Redirected(r) => req[r].log = FullOrder /\ req[r].tags = <<TagOf(req[r].a)>>

C6_ListIsFresh ==
    \A p \in ListPages :
        /\ resp'.page = p.name
        /\ \E r \in Req : Redirected(r) /\ TagOf(req[r].a) = p.tag
        => resp'.rows \in {o.ret : o \in Query(p.repo, DBNext, 0)}

ListOf(a) == IF a \in PostActions THEN "/t2-read-list/posts" ELSE "/t2-read-list/products"
OtherTag(a) == IF a \in PostActions THEN "products" ELSE "posts"

C7_OwnTagAndList ==
    \A r \in Req :
        Invoked(r) =>
            /\ \A i \in 1..Len(req[r].tags) : req[r].tags[i] = TagOf(req[r].a)
            /\ req[r].to \in {"", ListOf(req[r].a)}
            /\ Redirected(r) =>
                  req[r].tags = <<TagOf(req[r].a)>> /\ req[r].to = ListOf(req[r].a)

C7_OtherCacheKept ==
    \A r \in Req :
        Invoked(r) /\ req'[r] # req[r] /\ Invoked(r)' =>
            cache'[OtherTag(req[r].a)] = cache[OtherTag(req[r].a)]

C7_OwnEntityOnly == []C7_OwnTagAndList /\ [][C7_OtherCacheKept]_vars

C7_Witness ==
    \E r \in Req :
        /\ req[r].a = "updatePostAction"
        /\ Redirected(r)
        /\ cache["products"].valid
        /\ ~cache["posts"].valid

(***************************************************************************)
(* C8: an [id] page asked for a numeric id that no row of its table has    *)
(* gets null from getPostById / getProductById and answers with notFound   *)
(* (404), rendering no view.                                               *)
(***************************************************************************)
IdPageOf(name) == CHOOSE p \in IdPages : p.name = name
Served == resp.page \in {p.name : p \in IdPages}
Table(p) == IF p.tag = "posts" THEN posts ELSE products
\* The URL parameter, as the page reads it
Requested == parseInt(JStr(resp.param))

C8_MissingRowIs404 ==
    Served /\ ~isNaN(Requested)
           /\ (\A row \in Table(IdPageOf(resp.page)) : row.id # Requested.m)
    => /\ \A o \in Query(IdPageOf(resp.page).repo, DB, Requested.m) : o.ret = null
       /\ resp.status = 404
       /\ resp.view = "not-found"
       /\ resp.rows = <<>>

C8_Witness ==
    /\ resp.page = "PostDetailPage"
    /\ resp.param = <<"1">>
    /\ resp.status = 404
    /\ resp.sqls = <<Sql("SELECT", "posts")>>
    /\ postsSeq > 1

(***************************************************************************)
(* C9 as stated: an [id] page whose id parameter is not a number answers   *)
(* 404 and sends no query; a view is rendered only when the parameter is   *)
(* a number that is the id of an existing row.                             *)
(***************************************************************************)
\* The parameter is a decimal numeral
IsNumber(chars) == chars # <<>> /\ \A k \in 1..Len(chars) : chars[k] \in Digits

C9_NonNumericIs404 ==
    Served =>
        /\ ~IsNumber(resp.param) => resp.status = 404 /\ resp.sqls = <<>>
        /\ resp.status = 200 =>
              /\ IsNumber(resp.param)
              /\ \E row \in Table(IdPageOf(resp.page)) : row.id = DigitsValue(resp.param, 0)

(***************************************************************************)
(* C10: rendering a page changes no table and sends only SELECT; a table   *)
(* changes only in a step in which a server action sends its statement.    *)
(***************************************************************************)
C10_PageStep ==
    resp'.page # "" /\ resp'.sqls # <<>> =>
        /\ TablesUnchanged
        /\ \A k \in 1..Len(resp'.sqls) : resp'.sqls[k].verb = "SELECT"

C10_OnlyActionsWrite ==
    ~TablesUnchanged =>
        /\ resp' = NoResp
        /\ \E r \in Req : Issues(r) /\ req[r].a \in ActionNames

C10_PagesOnlyRead == [][C10_PageStep /\ C10_OnlyActionsWrite]_vars

C10_Witness ==
    /\ resp.page = "PostDeletePage"
    /\ resp.status = 200
    /\ resp.view = "PostDeleteDialog"
    /\ resp.sqls = <<Sql("SELECT", "posts")>>
    /\ resp.rows # <<>>
    /\ resp.rows[1] \in posts

(***************************************************************************)
(* The schemas on their own: rawData is any object of the schema's shape,  *)
(* and the action's parse statement runs on it.                            *)
(***************************************************************************)
TitleMax == 100
BodyMax == 5000

Names == {JStr(<<>>), C("a"), Rep("a", TitleMax), Rep("a", TitleMax + 1), JNull}
Bodies == {JStr(<<>>), C("x"), Rep("x", BodyMax), Rep("x", BodyMax + 1), JNull}
PostCategories == {JStr(c) : c \in PostCategory} \cup {C("a"), JNull}
ProductCategories == {JStr(c) : c \in ProductCategory} \cup {C("a"), JNull}
Numbers == {JInt(1), JInt(0), JInt(-1), JNum(15, 1), JNum(-15, 1), NaN, C("1"), JNull}

RawInputs(a) ==
    CASE a = "createPostAction" ->
            [title : Names, body : Bodies, category : PostCategories, authorId : Numbers]
      [] a = "updatePostAction" ->
            [id : Numbers, title : {C("a"), JNull}, body : {C("x"), JStr(<<>>)},
             category : {JStr(Tech), C("a")}, authorId : {JInt(1), NaN}]
      [] a = "deletePostAction" -> [id : Numbers]
      [] a = "createProductAction" ->
            [name : Names, category : ProductCategories, price : Numbers, stock : Numbers]
      [] a = "updateProductAction" ->
            [id : Numbers, name : Names, category : ProductCategories,
             price : Numbers, stock : Numbers]
      [] a = "deleteProductAction" -> [id : Numbers]

SchemaInit ==
    /\ posts = {}
    /\ products = {}
    /\ postsSeq = 1
    /\ productsSeq = 1
    /\ clock = 0
    /\ cache = [t \in Tags |-> Stale]
    /\ \E a \in ActionNames : \E raw \in RawInputs(a) :
          req = [r \in Req |->
                   IF r = 1 THEN [Idle EXCEPT !.a = a, !.status = "running", !.pc = 1,
                                              !.data = raw]
                   ELSE Idle]
    /\ invocations = 1
    /\ resp = NoResp

SchemaNext == Parse(1)

SchemaSpec == SchemaInit /\ [][SchemaNext]_vars

\* The action's schema.parse has run on request r's rawData
Parsed(r, a) == req[r].a = a /\ req[r].log = <<"parse">>
\* ... and returned the validated data
Accepted(r) == req[r].status = "running"

(***************************************************************************)
(* C11: createPostSchema accepts an input exactly when title is a string   *)
(* of length 1..100, body a string of length 1..5000, category one of      *)
(* Tech, Life, General and authorId a positive integer.                    *)
(***************************************************************************)
StringOfLength(v, lo, hi) == v.t = "string" /\ Len(v.s) >= lo /\ Len(v.s) <= hi
IsInteger(v) == v.t = "number" /\ ~v.nan /\ v.e = 0
PositiveInteger(v) == IsInteger(v) /\ v.m > 0

C11_CreatePostSchema ==
    \A r \in Req :
        Parsed(r, "createPostAction") =>
            (Accepted(r) <=>
                /\ StringOfLength(req[r].data.title, 1, 100)
                /\ StringOfLength(req[r].data.body, 1, 5000)
                /\ req[r].data.category.t = "string"
                /\ req[r].data.category.s \in {Tech, Life, General}
                /\ PositiveInteger(req[r].data.authorId))
            /\ (~Accepted(r) => Threw(r) /\ req[r].issues # {})

C11_Witness ==
    /\ Parsed(1, "createPostAction")
    /\ Accepted(1)
    /\ Len(req[1].data.title.s) = 100
    /\ Len(req[1].data.body.s) = 5000
    /\ req[1].data.category.s = General

(***************************************************************************)
(* C12: createProductSchema accepts an input exactly when name is a string *)
(* of length 1..100, category one of the product categories, price a       *)
(* number greater than 0 and stock an integer greater than or equal to 0.  *)
(***************************************************************************)
RealNumber(v) == v.t = "number" /\ ~v.nan
ValidProductCategory(v) ==
    v.t = "string" /\ v.s \in {Electronics, Clothing, Books, Home, Sports}

C12_CreateProductSchema ==
    \A r \in Req :
        Parsed(r, "createProductAction") =>
            (Accepted(r) <=>
                /\ StringOfLength(req[r].data.name, 1, 100)
                /\ ValidProductCategory(req[r].data.category)
                /\ RealNumber(req[r].data.price) /\ req[r].data.price.m > 0
                /\ IsInteger(req[r].data.stock) /\ req[r].data.stock.m >= 0)
            /\ (~Accepted(r) => Threw(r) /\ req[r].issues # {})

C12_Witness ==
    /\ Parsed(1, "createProductAction")
    /\ Accepted(1)
    /\ req[1].data.price = JNum(15, 1)
    /\ req[1].data.stock = JInt(0)
    /\ Len(req[1].data.name.s) = 100

(***************************************************************************)
(* C13: updateProductSchema accepts an input exactly when id is a positive *)
(* integer, name a string of length 1..100, category one of the product    *)
(* categories, price a number greater than or equal to 0 and stock an      *)
(* integer greater than or equal to 0.                                     *)
(***************************************************************************)
C13_UpdateProductSchema ==
    \A r \in Req :
        Parsed(r, "updateProductAction") =>
            (Accepted(r) <=>
                /\ PositiveInteger(req[r].data.id)
                /\ StringOfLength(req[r].data.name, 1, 100)
                /\ ValidProductCategory(req[r].data.category)
                /\ RealNumber(req[r].data.price) /\ req[r].data.price.m >= 0
                /\ IsInteger(req[r].data.stock) /\ req[r].data.stock.m >= 0)
            /\ (~Accepted(r) => Threw(r) /\ req[r].issues # {})

C13_Witness ==
    /\ Parsed(1, "updateProductAction")
    /\ Accepted(1)
    /\ req[1].data.price = JInt(0)
    /\ req[1].data.stock = JInt(0)
    /\ req[1].data.id = JInt(1)

(***************************************************************************)
(* C14: deletePostSchema and deleteProductSchema accept an input exactly   *)
(* when id is a number that is an integer and greater than 0.              *)
(***************************************************************************)
C14_DeleteSchemas ==
    \A r \in Req :
        Parsed(r, "deletePostAction") \/ Parsed(r, "deleteProductAction") =>
            (Accepted(r) <=> PositiveInteger(req[r].data.id))
            /\ (~Accepted(r) => Threw(r) /\ req[r].issues # {})

C14_Witness ==
    /\ Parsed(1, "deletePostAction")
    /\ Threw(1)
    /\ req[1].data.id = JNum(15, 1)
    /\ req[1].issues = {<<"id", "int">>}

(***************************************************************************)
(* The update forms as the update pages render them for a row: every       *)
(* field's value is the string of the row's value.                         *)
(***************************************************************************)
DigitChar(d) == CHOOSE c \in Digits : DigitVal(c) = d

RECURSIVE NatChars(_)
\* the decimal numeral of a natural number
NatChars(n) == IF n < 10 THEN <<DigitChar(n)>> ELSE Append(NatChars(n \div 10), DigitChar(n % 10))

RECURSIVE Padded(_, _)
\* ds with zeros in front up to length n
Padded(ds, n) == IF Len(ds) >= n THEN ds ELSE Padded(<<"0">> \o ds, n)

\* String(v) of a number m / 10^e, as a form field renders it
NumberToString(v) ==
    IF v.nan THEN <<"N", "a", "N">>
    ELSE LET abs == IF v.m < 0 THEN -v.m ELSE v.m
             ip == NatChars(abs \div Pow10(v.e))
             fp == IF v.e = 0 THEN <<>>
                   ELSE <<".">> \o Padded(NatChars(abs % Pow10(v.e)), v.e)
         IN  (IF v.m < 0 THEN <<"-">> ELSE <<>>) \o ip \o fp

PostUpdateForm(post) ==
    [id |-> JStr(NumberToString(JInt(post.id))),
     title |-> JStr(post.title),
     category |-> JStr(post.category),
     authorId |-> JStr(NumberToString(JInt(post.authorId))),
     body |-> JStr(post.body)]

ProductUpdateForm(product) ==
    [id |-> JStr(NumberToString(JInt(product.id))),
     name |-> JStr(product.name),
     category |-> JStr(product.category),
     price |-> JStr(NumberToString(JNum(product.price[1], product.price[2]))),
     stock |-> JStr(NumberToString(JInt(product.stock)))]

(***************************************************************************)
(* C15: an update action whose submitted values are those the update form  *)
(* shows for an existing row leaves that row (id and createdAt included)   *)
(* and both tables as they were; and running any update's statement again  *)
(* on its result changes nothing further.                                  *)
(***************************************************************************)
UpdateOf(a) == IF a = "updatePostAction" THEN "updatePost" ELSE "updateProduct"

C15_UnchangedSubmit ==
    \A r \in Req :
        /\ Issues(r) /\ req[r].a = "updatePostAction" =>
              \A row \in posts :
                  req[r].data = RawData(updatePostAction, PostUpdateForm(row)) =>
                      TablesUnchanged /\ req'[r].ret = <<row>>
        /\ Issues(r) /\ req[r].a = "updateProductAction" =>
              \A row \in products :
                  req[r].data = RawData(updateProductAction, ProductUpdateForm(row)) =>
                      TablesUnchanged /\ req'[r].ret = <<row>>

C15_Twice ==
    \A r \in Req :
        Issues(r) /\ req[r].a \in {"updatePostAction", "updateProductAction"} =>
            \A now \in {clock', clock' + 1} :
                \A o \in Repository(UpdateOf(req[r].a), DBNext, now, req[r].data) :
                    o.db = DBNext

C15_UnchangedUpdate == [][C15_UnchangedSubmit /\ C15_Twice]_vars

C15_Witness ==
    \E r \in Req : \E row \in products :
        /\ req[r].a = "updateProductAction"
        /\ req[r].log = <<"parse", "await">>
        /\ req[r].data = RawData(updateProductAction, ProductUpdateForm(row))
        /\ row.price = <<15, 1>>
        /\ req[r].ret = <<row>>
        /\ clock > row.createdAt

(***************************************************************************)
(* An update form held in a browser: the update page renders it from the   *)
(* row, the user edits it, and submits it later; other requests run in     *)
(* between.  While the form is held, the slot's ret is the row the page's   *)
(* getById returned.                                                       *)
(***************************************************************************)
Holder == NumReq
UpdatePages == {PostUpdatePage, ProductUpdatePage}
FormAction(p) == IF p.tag = "posts" THEN "updatePostAction" ELSE "updateProductAction"
RenderedForm(p, row) == IF p.tag = "posts" THEN PostUpdateForm(row) ELSE ProductUpdateForm(row)
Edits(a) == IF a = "updatePostAction" THEN PostValues ELSE ProductValues

OpenUpdateForm(p, param) ==
    /\ req[Holder].status = "idle"
    /\ \E o \in IdPageRender(p, DB, param) :
          /\ SetDB(o.db)
          /\ resp' = o.resp
          /\ req' = [req EXCEPT ![Holder] =
                       IF o.resp.status = 200
                       THEN [Idle EXCEPT !.a = FormAction(p), !.status = "form",
                                         !.ret = o.resp.rows]
                       ELSE @]
    /\ UNCHANGED <<clock, cache, invocations>>

SubmitUpdateForm(values) ==
    /\ req[Holder].status = "form"
    /\ values \in Edits(req[Holder].a)
    /\ invocations < MaxInvocations
    /\ invocations' = invocations + 1
    /\ LET a == req[Holder].a
           p == CHOOSE q \in UpdatePages : FormAction(q) = a
           form == WithId(RenderedForm(p, req[Holder].ret[1]).id, values)
       IN  req' = [req EXCEPT ![Holder] =
                     [@ EXCEPT !.status = "running", !.pc = 1,
                               !.data = RawData(Handler(a), form)]]
    /\ resp' = NoResp
    /\ UNCHANGED <<posts, products, postsSeq, productsSeq, clock, cache>>

ConflictNext ==
    \/ \E a \in ActionNames : \E form \in Forms(a) : Invoke(1, a, form)
    \/ \E r \in {1, Holder} : Parse(r)
    \/ \E r \in {1, Holder} : Await(r)
    \/ \E r \in {1, Holder} : RevalidateTag(r)
    \/ \E r \in {1, Holder} : Redirect(r)
    \/ \E r \in {1, Holder} : Respond(r)
    \/ \E p \in UpdatePages : OpenUpdateForm(p, <<"1">>)
    \/ \E values \in PostValues \cup ProductValues : SubmitUpdateForm(values)

ConflictSpec == Init /\ [][ConflictNext]_vars

(***************************************************************************)
(* C16 as stated: when the row an update form was rendered from has been   *)
(* updated or deleted by another request before the form's update action   *)
(* runs its statement, the action does not go on as an ordinary success    *)
(* (revalidateTag, redirect to the list).                                  *)
(***************************************************************************)
\* The row request r's form was rendered from is no longer in its table
Conflicting(r) ==
    /\ req[r].a \in {"updatePostAction", "updateProductAction"}
    /\ At(r, "await")
    /\ req[r].ret # null
    /\ req[r].ret[1] \notin (IF req[r].a = "updatePostAction" THEN posts ELSE products)

C16_Step ==
    \A r \in Req :
        Conflicting(r) /\ Issues(r) => ~(At(r, "revalidateTag")')

C16_ConflictNotified == [][C16_Step]_vars

(***************************************************************************)
(* C17: getPostList and getProductList return one element per row of       *)
(* their table, each with only id, title (name) and createdAt of its row,  *)
(* newest first: of two adjacent elements the earlier has a createdAt      *)
(* greater than or equal to the later's.  A list page rendered by its      *)
(* query shows such a result.                                              *)
(***************************************************************************)
ListsTable(list, table, label) ==
    /\ Len(list) = Cardinality(table)
    /\ {list[k].id : k \in 1..Len(list)} = {row.id : row \in table}
    /\ \A k \in 1..Len(list) :
          /\ DOMAIN list[k] = {"id", label, "createdAt"}
          /\ \E row \in table :
                /\ row.id = list[k].id
                /\ row[label] = list[k][label]
                /\ row.createdAt = list[k].createdAt
    /\ \A k \in 1..(Len(list) - 1) : list[k].createdAt >= list[k + 1].createdAt

C17_ListNewestFirst ==
    /\ \A o \in getPostList(DB) : ListsTable(o.ret, posts, "title")
    /\ \A o \in getProductList(DB) : ListsTable(o.ret, products, "name")
    /\ resp.page = "PostsPage" /\ resp.sqls # <<>> => ListsTable(resp.rows, posts, "title")
    /\ resp.page = "ProductsPage" /\ resp.sqls # <<>> =>
          ListsTable(resp.rows, products, "name")

C17_Witness ==
    /\ resp.page = "PostsPage"
    /\ resp.sqls = <<Sql("SELECT", "posts")>>
    /\ Len(resp.rows) >= 3
    /\ resp.rows[1].createdAt > resp.rows[2].createdAt
    /\ resp.rows[2].createdAt = resp.rows[3].createdAt

(***************************************************************************)
(* Form submissions with the field strings a user can type.  The request   *)
(* keeps the FormData it was called with.                                  *)
(***************************************************************************)
Chars(str) == JStr(str)
TypedIds ==
    {JNull, C("a"), Chars(<<"1", "a">>), C("0"), Chars(<<"-", "1">>), C("1"), C("2"),
     Chars(<<"1", ".", "5">>)}
TypedStocks == {C("3"), Chars(<<"3", ".", "7">>), C("a"), Chars(<<"-", "1">>)}

WithStock(f, stock) == [f EXCEPT !.stock = stock]

TypedForms(a) ==
    CASE a = "createPostAction" -> PostValues \cup BadPostValues
      [] a = "updatePostAction" -> {WithId(C("1"), PostB)} \cup {WithId(C("1"), f) : f \in BadPostValues}
      [] a = "deletePostAction" -> {[id |-> i] : i \in TypedIds}
      [] a = "createProductAction" -> {WithStock(ProductP, st) : st \in TypedStocks}
      [] a = "updateProductAction" ->
            {WithId(C("1"), WithStock(ProductQ, st)) : st \in TypedStocks}
      [] a = "deleteProductAction" -> {[id |-> i] : i \in TypedIds}

\* The request record together with the FormData of the call
Called(rec, formData) ==
    [k \in DOMAIN rec \cup {"formData"} |-> IF k = "formData" THEN formData ELSE rec[k]]

\* <form action={action}>: the action is called with the FormData
Submit(a, form) ==
    /\ FreeSlot(1)
    /\ invocations < MaxInvocations
    /\ invocations' = invocations + 1
    /\ req' = [req EXCEPT ![1] =
                 Called([Idle EXCEPT !.a = a, !.status = "running", !.pc = 1,
                                     !.data = RawData(Handler(a), form)], form)]
    /\ resp' = NoResp
    /\ UNCHANGED <<posts, products, postsSeq, productsSeq, clock, cache>>

\* PostForm: useFormState(createPostAction, initialState) calls
\* createPostAction(state, formData); the action's one parameter is the
\* state object, so formData.get(...) throws TypeError before rawData exists
SubmitPostForm(form) ==
    /\ FreeSlot(1)
    /\ invocations < MaxInvocations
    /\ invocations' = invocations + 1
    /\ req' = [req EXCEPT ![1] =
                 Called([Idle EXCEPT !.a = "createPostAction", !.status = "threw",
                                     !.issues = {<<"formData.get", "TypeError">>}], form)]
    /\ resp' = NoResp
    /\ UNCHANGED <<posts, products, postsSeq, productsSeq, clock, cache>>

FormNext ==
    \/ \E a \in ActionNames : \E form \in TypedForms(a) : Submit(a, form)
    \/ \E form \in TypedForms("createPostAction") : SubmitPostForm(form)
    \/ Parse(1)
    \/ Await(1)
    \/ RevalidateTag(1)
    \/ Redirect(1)
    \/ Respond(1)

FormSpec == Init /\ [][FormNext]_vars

\* Request r was called with a FormData
Submitted(r) == Invoked(r) /\ "formData" \in DOMAIN req[r]

\* The request's invocation is over
Ended(r) == req[r].status \in {"threw", "redirected"}

\* The field's string is a decimal number: an optional sign, digits, and
\* optionally a point and digits
IsDecimal(v) ==
    /\ v.t = "string"
    /\ LET u == Unsigned(v.s)
           ip == DigitPrefix(u)
           rest == Drop(u, Len(ip))
       IN  /\ ip # <<>>
           /\ \/ rest = <<>>
              \/ /\ Head(rest) = "."
                 /\ Tail(rest) # <<>>
                 /\ DigitPrefix(Tail(rest)) = Tail(rest)

(***************************************************************************)
(* C18 as stated: a delete action whose submitted id field is missing, is  *)
(* a string that is not a number, is 0 or is negative fails validation and *)
(* deletes no row; a row is deleted only when the submitted id field is    *)
(* the numeral of that row's positive integer id.                          *)
(***************************************************************************)
DeleteActions == {"deletePostAction", "deleteProductAction"}

InvalidIdField(v) ==
    \/ v.t = "null"
    \/ ~IsDecimal(v)
    \/ parseFloat(v).m <= 0

C18_InvalidNeverDeletes ==
    \A r \in Req :
        Submitted(r) /\ req[r].a \in DeleteActions /\ InvalidIdField(req[r].formData.id)
                     /\ req[r].log # <<>>
        => Threw(r) /\ req[r].sqls = <<>>

C18_DeletesOnlyNamedRow ==
    \A r \in Req :
        Submitted(r) /\ req[r].a \in DeleteActions /\ Issues(r) =>
            \A row \in (posts \ posts') \cup (products \ products') :
                /\ req[r].formData.id.t = "string"
                /\ req[r].formData.id.s = NumberToString(JInt(row.id))

\* C18: an invalid id field never deletes, and a deleted row is the one the
\* id field names
C18_InvalidIdsNeverDelete == []C18_InvalidNeverDeletes /\ [][C18_DeletesOnlyNamedRow]_vars

(***************************************************************************)
(* C19 as stated: createProductAction and updateProductAction never store  *)
(* a stock that differs from the number the user submitted; a submission   *)
(* whose stock field is a non-integer decimal is rejected with the integer *)
(* validation error and writes nothing.                                    *)
(***************************************************************************)
StockActions == {"createProductAction", "updateProductAction"}

C19_DecimalRejected ==
    \A r \in Req :
        Submitted(r) /\ req[r].a \in StockActions /\ req[r].log # <<>>
                     /\ IsDecimal(req[r].formData.stock)
                     /\ parseFloat(req[r].formData.stock).e > 0
        => Threw(r) /\ <<"stock", "int">> \in req[r].issues /\ req[r].sqls = <<>>

C19_StoresSubmittedStock ==
    \A r \in Req :
        Submitted(r) /\ req[r].a \in StockActions /\ Issues(r) /\ req'[r].ret # null =>
            /\ IsDecimal(req[r].formData.stock)
            /\ parseFloat(req[r].formData.stock) = JInt(req'[r].ret[1].stock)

\* C19: the stored stock is the submitted number, and a decimal stock is
\* rejected by the integer rule
C19_StockIsWhatWasSubmitted == []C19_DecimalRejected /\ [][C19_StoresSubmittedStock]_vars

(***************************************************************************)
(* C20 as stated: a create-post submission that fails validation ends      *)
(* with createPostAction returning an ActionResult with success = false    *)
(* whose fieldErrors names each offending field (or whose error is a       *)
(* message), not in an exception.                                          *)
(***************************************************************************)
OffendingFields(form) ==
    {i[1] : i \in SchemaParse(createPostSchema, RawData(createPostAction, form)).issues}

\* C20: an invalid create-post submission ends with an ActionResult that
\* carries the errors, not with an exception
C20_ErrorsAsState ==
    \A r \in Req :
        Submitted(r) /\ req[r].a = "createPostAction" /\ Ended(r)
                     /\ OffendingFields(req[r].formData) # {}
        => /\ ~Threw(r)
           /\ req[r].ret # null
           /\ req[r].ret[1].success = FALSE
           /\ \/ OffendingFields(req[r].formData) \subseteq DOMAIN req[r].ret[1].fieldErrors
              \/ req[r].ret[1].error # <<>>

(***************************************************************************)
(* C21: an update action whose validated id matches no row changes no row  *)
(* of either table and throws nothing; it goes on to invalidate the        *)
(* entity's tag and to redirect to the list page, so that what the caller  *)
(* gets back is what a successful update gives.                            *)
(***************************************************************************)
UpdateActions == {"updatePostAction", "updateProductAction"}

TableOf(a) == IF a \in PostActions THEN posts ELSE products

Misses(r) == \A row \in TableOf(req[r].a) : row.id # req[r].data.id.m

\* What the caller of a server action observes of its invocation
Observed(rec) == [status |-> rec.status, issues |-> rec.issues, tags |-> rec.tags,
                  to |-> rec.to]

C21_MissChangesNothing ==
    \A r \in Req :
        req[r].a \in UpdateActions /\ Issues(r) /\ Misses(r) =>
            /\ TablesUnchanged
            /\ req'[r].ret = null
            /\ ~Threw(r)'
            /\ At(r, "revalidateTag")'
            /\ Current(r)'.arg = TagOf(req[r].a)

C21_SameOutcome ==
    \A r \in Req :
        req[r].a \in UpdateActions /\ Ended(r) /\ req[r].sqls # <<>> =>
            Observed(req[r]) = [status |-> "redirected", issues |-> {},
                                tags |-> <<TagOf(req[r].a)>>, to |-> ListOf(req[r].a)]

CreateActions == {"createPostAction", "createProductAction"}

\* table -> table2 is an update of the row with this id, and of nothing else
UpdateFrame(table, table2, id) ==
    /\ \A row \in table : row.id # id => row \in table2
    /\ \A row \in table2 : row.id # id => row \in table
    /\ \A row \in table : row.id = id =>
          Cardinality({n \in table2 : n.id = id /\ n.createdAt = row.createdAt}) = 1
    /\ Cardinality(table2) = Cardinality(table)

DeleteFrame(table, table2, id) ==
    /\ table2 \subseteq table
    /\ \A row \in table \ table2 : row.id = id

CreateFrame(table, table2) == table \subseteq table2

TableNextOf(a) == IF a \in PostActions THEN posts' ELSE products'

OtherTableKept(a) == IF a \in PostActions THEN products' = products ELSE posts' = posts

C22_Step ==
    /\ \A r \in Req : Issues(r) =>
          /\ OtherTableKept(req[r].a)
          /\ req[r].a \in UpdateActions =>
                UpdateFrame(TableOf(req[r].a), TableNextOf(req[r].a), req[r].data.id.m)
          /\ req[r].a \in DeleteActions =>
                DeleteFrame(TableOf(req[r].a), TableNextOf(req[r].a), req[r].data.id.m)
          /\ req[r].a \in CreateActions =>
                CreateFrame(TableOf(req[r].a), TableNextOf(req[r].a))
    /\ (\A r \in Req : ~Issues(r)) => posts' = posts /\ products' = products

C22_MutationFrame == [][C22_Step]_vars

C22_Witness ==
    \E r \in Req : \E row \in products, other \in products :
        /\ req[r].a = "updateProductAction"
        /\ req[r].log = <<"parse", "await">>
        /\ invocations = 1
        /\ req[r].ret = <<row>>
        /\ row.id = 1
        /\ row.name = <<"q">>
        /\ other.id = 2
        /\ other.name = <<"q">>
        /\ posts # {}

(***************************************************************************)
(* C23: delete is idempotent and does not fail on a missing row.  The      *)
(* DELETE of a delete action run again on its own result changes nothing;  *)
(* a delete action whose row is already gone (deleted by an earlier run or *)
(* by another user's run) deletes nothing, returns null, throws nothing    *)
(* and goes on to invalidate the tag; and every delete action that issued  *)
(* its DELETE ends redirected to the list page.                            *)
(***************************************************************************)
DeleteOf(a) == IF a = "deletePostAction" THEN "deletePost" ELSE "deleteProduct"

C23_Twice ==
    \A r \in Req :
        req[r].a \in DeleteActions /\ Issues(r) =>
            \A now \in {clock', clock' + 1} :
                \A o \in Repository(DeleteOf(req[r].a), DBNext, now, req[r].data) :
                    o.db = DBNext /\ o.ret = null

C23_SecondRun ==
    \A r \in Req :
        req[r].a \in DeleteActions /\ Issues(r) /\ Misses(r) =>
            /\ TablesUnchanged
            /\ req'[r].ret = null
            /\ ~Threw(r)'
            /\ At(r, "revalidateTag")'
            /\ Current(r)'.arg = TagOf(req[r].a)

C23_Redirects ==
    \A r \in Req :
        req[r].a \in DeleteActions /\ Ended(r) /\ req[r].sqls # <<>> =>
            Observed(req[r]) = [status |-> "redirected", issues |-> {},
                                tags |-> <<TagOf(req[r].a)>>, to |-> ListOf(req[r].a)]

C23_DeleteIdempotent == []C23_Redirects /\ [][C23_Twice /\ C23_SecondRun]_vars

\* Two users delete the same product: the first run removed the row, the
\* second found none and has redirected
C23_Witness ==
    \E r, q \in Req :
        /\ r # q
        /\ req[r].a = "deleteProductAction" /\ req[q].a = "deleteProductAction"
        /\ req[r].data = req[q].data
        /\ req[r].ret # null /\ req[r].sqls # <<>>
        /\ req[q].ret = null /\ req[q].sqls # <<>>
        /\ Redirected(q)
        /\ products # {}

=============================================================================
